---------------------------- MODULE Spec2Model ----------------------------
(***************************************************************************)
(* One invocation of the cloudfront module (src/files/cloudfront.py).      *)
(*                                                                         *)
(* The module is a sequential script.  Every action below is the code      *)
(* between two calls of the provider's API: the call itself, what the      *)
(* provider does with it, and the local code up to the next call.  The     *)
(* provider changes the status of a resource on its own (ProviderDeploys), *)
(* which is the only thing that runs beside the script.                    *)
(*                                                                         *)
(* An invocation ends in one of three ways:                                *)
(*   "exit"   module.exit_json(changed=..., result=...)         (line 549) *)
(*   "fail"   module.fail_json(msg=...), which leaves the process          *)
(*   "crash"  an exception nobody catches (KeyError, TypeError, an error   *)
(*            raised by the SDK): a traceback, no message of the module    *)
(*                                                                         *)
(* JSON objects (the policy, a resource's Config) are functions from key   *)
(* names to values, so that "key in dict" and dict equality are what they  *)
(* are in the code.                                                        *)
(***************************************************************************)
EXTENDS Naturals, Sequences, FiniteSets

\* ------------------------------------------------------------------ bounds
\* Most resources the provider holds when the invocation starts.
MaxResources == 2
\* Caller references in use: 1..NumRefs.
NumRefs == 2

\* --------------------------------------------------------- program constants
\* wait_for_deployed_status(client, module, max_retries=30, **args)
max_retries == 30
\* polling_increment_secs = 30
polling_increment_secs == 30

\* ------------------------------------------------------------------ values
Types == {"distribution", "origin_access_id", "invalidation", "streaming"}
States == {"present", "absent"}
Refs == 1 .. NumRefs

\* The empty JSON object {}.
EmptyDoc == [k \in {} |-> TRUE]
\* No ETag: the empty string of line 186.
NoETag == << >>

\* JSON objects a user can write as a policy: with or without CallerReference,
\* with or without a second member (Enabled).
Docs ==
    [CallerReference : Refs, Enabled : BOOLEAN]
        \cup [CallerReference : Refs]
        \cup [Enabled : BOOLEAN]
        \cup {EmptyDoc}

\* The policy parameter: not given (None), a text that is neither a readable
\* file of JSON nor JSON itself, or JSON text holding the object doc.
PolicyParams ==
    {[given |-> FALSE, valid |-> FALSE, doc |-> EmptyDoc],
     [given |-> TRUE, valid |-> FALSE, doc |-> EmptyDoc]}
        \cup {[given |-> TRUE, valid |-> TRUE, doc |-> d] : d \in Docs}

\* resource_id: 0 is "not given"; the only id a caller names here is 1.
NoResourceId == 0
ResourceIds == {NoResourceId, 1}

\* The parameters of an invocation.  A parameter the invocation cannot read is
\* left not given: removal_setup never reads policy, and of the functions
\* called for state=present only those of type invalidation read resource_id
\* (lines 173, 290 and 329).
Params ==
    {p \in [type : Types, policy : PolicyParams, resource_id : ResourceIds,
            state : States, wait_for_deployed : BOOLEAN] :
        /\ p.state = "absent" => ~p.policy.given
        /\ (p.state = "present" /\ p.type # "invalidation")
              => p.resource_id = NoResourceId}

\* What the provider stores as the Config of a resource of type t.  A
\* distribution and a streaming distribution carry Enabled; an origin access
\* identity (CallerReference, Comment) and an invalidation batch
\* (CallerReference, Paths) do not.
ConfigsOf(t) ==
    IF t \in {"distribution", "streaming"}
    THEN [CallerReference : Refs, Enabled : BOOLEAN]
    ELSE [CallerReference : Refs]

\* The status the provider reports once a change is through.
TerminalOf(t) == IF t = "invalidation" THEN "Completed" ELSE "Deployed"

\* A resource as the provider holds it.  An origin access identity has no
\* Status member (HasStatus is FALSE for it).
HasStatus(t) == t # "origin_access_id"

\* The Status a resource can have when the invocation starts.  The provider
\* keeps none for an origin access identity; the model's record holds the
\* terminal value there and HasStatus says it cannot be read.
StatusesOf(t) ==
    IF HasStatus(t) THEN {"InProgress", TerminalOf(t)} ELSE {TerminalOf(t)}

\* ETags are <<Id, version>>: the provider gives a resource a new one with
\* every change of its config.
FirstETag(id) == <<id, 1>>
NextETag(etag) == <<etag[1], etag[2] + 1>>

\* The resources of one type the provider can hold when the invocation starts:
\* ids 1..n in listing order, caller references unique (the provider refuses a
\* second resource with a caller reference it already holds).
InitialResources(t) ==
    {[i \in 1 .. n |->
        [Id |-> i, Config |-> cfg[i], ETag |-> FirstETag(i), Status |-> st[i]]] :
        <<n, cfg, st>> \in
            {<<n, cfg, st>> \in
                UNION {{n2} \X [1 .. n2 -> ConfigsOf(t)]
                           \X [1 .. n2 -> StatusesOf(t)] :
                       n2 \in 0 .. MaxResources} :
                \A i, j \in 1 .. n :
                    cfg[i].CallerReference = cfg[j].CallerReference => i = j}}

\* ------------------------------------------------------------------- state
VARIABLES
    params,         \* module.params
    initial,        \* the provider's resources when the invocation started
    resources,      \* the provider's resources of params.type, in listing order
    itemsKey,       \* whether a listing of no resources still carries 'Items'
    pc,             \* where the script is
    stack,          \* the labels to return to, innermost first
    policy,         \* creation_setup: the parsed policy; update: its policy argument
    existing,       \* creation_setup: the list get_config_method returned
    idx,            \* creation_setup: the item the for loop is at
    caller_reference_exists,
    changed,
    results,
    updArgs,        \* update's resource_id and etag arguments
    config,         \* removal_setup: the config read, and its ETag
    waitId,         \* wait_for_deployed_status: args['Id']
    x,              \* wait_for_deployed_status: polls made by this call
    slept,          \* wait_for_deployed_status: seconds slept by this call
    status_achieved,
    current_status, \* wait_for_deployed_status: the status read last
    ret,            \* what the function that returned last returned
    outcome,        \* how the invocation ended, "running" until then
    log             \* the provider calls made so far, in order

vars ==
    <<params, initial, current_status,
      resources, itemsKey, pc, stack, policy, existing, idx,
      caller_reference_exists, changed, results, updArgs, config, waitId, x,
      slept, status_achieved, ret, outcome, log>>

\* A logged provider call.  Id is the id the call names, for a create call the
\* id the provider answers with.  Members a call does not carry hold NoId,
\* NoETag, EmptyDoc or "".
NoId == 0
Call(op, id, ifMatch, cfg, status) ==
    [op |-> op, Id |-> id, IfMatch |-> ifMatch, Config |-> cfg, Status |-> status]

NoResult == [kind |-> "none", Id |-> NoId]
NoReturn == [changed |-> FALSE, result |-> NoResult]
Running == [kind |-> "running", msg |-> "", changed |-> FALSE, result |-> NoResult]

Init ==
    /\ params \in Params
    /\ resources \in InitialResources(params.type)
    /\ initial = resources
    /\ itemsKey \in BOOLEAN
    /\ (Len(resources) > 0 => itemsKey)
    /\ pc = "main"
    /\ stack = << >>
    /\ policy = EmptyDoc
    /\ existing = << >>
    /\ idx = 1
    /\ caller_reference_exists = FALSE
    /\ changed = FALSE
    /\ results = NoResult
    /\ updArgs = [Id |-> NoId, ETag |-> NoETag]
    /\ config = [Config |-> EmptyDoc, ETag |-> NoETag]
    /\ waitId = NoId
    /\ x = 0
    /\ slept = 0
    /\ status_achieved = FALSE
    /\ current_status = ""
    /\ ret = NoReturn
    /\ outcome = Running
    /\ log = << >>

\* ------------------------------------------------------------ how it ends
MsgInvalidJson == "ValueError"
MsgNoCallerReference == "CallerReference is required in your policy"
MsgNoDistributionId == "distribution_id is required for invalidations"
MsgInvalidationUpdate ==
    "AWS does not support updating invalidation configs, please create a new invalidation with your new config and use a new caller reference id instead"
MsgTimedOutWaiting ==
    "Timed out waiting for the resource to finish deploying, please check the AWS console for the latest status."
MsgTimedOutDisabling == "Timed out disabling the resource, please try again"
MsgInvalidationRemoval == "Invalidations cannot be updated or removed"
MsgNoResourceId == "resource_id is requried for removing a resource"
MsgMustBeDisabled == "Resource must be disabled before you can remove it from AWS"

\* module.fail_json(msg=...): the process ends there.
fail_json(msg) ==
    /\ outcome' = [kind |-> "fail", msg |-> msg, changed |-> FALSE, result |-> NoResult]
    /\ pc' = "done"

\* An exception no handler of the script catches.
Raise(exc) ==
    /\ outcome' = [kind |-> "crash", msg |-> exc, changed |-> FALSE, result |-> NoResult]
    /\ pc' = "done"

\* ------------------------------------------------------------ the provider
\* The position of the resource with this id in the provider's listing, 0 when
\* the provider holds none.
IndexOf(id) ==
    IF \E i \in 1 .. Len(resources) : resources[i].Id = id
    THEN CHOOSE i \in 1 .. Len(resources) : resources[i].Id = id
    ELSE 0

\* The id the provider gives the next resource it creates.
NewId == Len(resources) + 1

\* create_*: a new resource holding the config, its change in progress.
ProviderCreate(cfg) ==
    Append(resources,
           [Id |-> NewId, Config |-> cfg, ETag |-> FirstETag(NewId),
            Status |-> "InProgress"])

\* update_*: the resource's config replaced, a new ETag, the change in progress.
ProviderUpdate(id, cfg) ==
    [resources EXCEPT ![IndexOf(id)] =
        [@ EXCEPT !.Config = cfg, !.ETag = NextETag(@), !.Status = "InProgress"]]

\* delete_*: the resource is gone.
ProviderDelete(id) == SelectSeq(resources, LAMBDA r : r.Id # id)

\* The provider finishes the change of the resource the script is polling.  No
\* other status is ever read by the script, so no other change of status is
\* modelled.
ProviderDeploys ==
    /\ pc = "poll"
    /\ IndexOf(waitId) # 0
    /\ resources[IndexOf(waitId)].Status = "InProgress"
    /\ resources' = [resources EXCEPT ![IndexOf(waitId)].Status = TerminalOf(params.type)]
    /\ UNCHANGED <<params, initial, current_status,
                   itemsKey, pc, stack, policy, existing, idx,
                   caller_reference_exists, changed, results, updArgs, config,
                   waitId, x, slept, status_achieved, ret, outcome, log>>

\* ------------------------------------------------------------------ main
\* main(), lines 533-547: the state parameter picks the setup function.
Main ==
    /\ pc = "main"
    /\ pc' = IF params.state = "present" THEN "creation_setup" ELSE "removal_setup"
    /\ UNCHANGED <<params, initial, current_status,
                   resources, itemsKey, stack, policy, existing, idx,
                   caller_reference_exists, changed, results, updArgs, config,
                   waitId, x, slept, status_achieved, ret, outcome, log>>

\* main(), line 549: module.exit_json(changed=changed, result=results).
MainExit ==
    /\ pc = "exit_json"
    /\ outcome' = [kind |-> "exit", msg |-> "", changed |-> changed, result |-> results]
    /\ pc' = "done"
    /\ UNCHANGED <<params, initial, current_status,
                   resources, itemsKey, stack, policy, existing, idx,
                   caller_reference_exists, changed, results, updArgs, config,
                   waitId, x, slept, status_achieved, ret, log>>

\* ------------------------------------------------- wait_for_deployed_status
\* Entering wait_for_deployed_status(client, module, Id=id), lines 419-420 and
\* 439; retLabel is where its caller goes on.
StartWait(id, retLabel) ==
    /\ waitId' = id
    /\ x' = 0
    /\ slept' = 0
    /\ status_achieved' = FALSE
    /\ current_status' = ""
    /\ stack' = <<retLabel>> \o stack
    /\ pc' = "poll"

\* for x in range(0, max_retries), line 441: whether another pass is made.
LoopContinues(n) == n < max_retries

\* A slip in line 444: only 'Deployed' ends the wait.
IsTerminalStatusDeployedOnly(st) == st = "Deployed"

\* Line 444.
IsTerminalStatus(st) == st = "Deployed" \/ st = "Completed"

\* One pass of the loop, lines 442-447: one status read; a terminal status ends
\* the function with True, any other is followed by a sleep.
Poll ==
    /\ pc = "poll"
    /\ LoopContinues(x)
    /\ IF IndexOf(waitId) = 0
       THEN /\ Raise("NoSuchResource")
            /\ UNCHANGED <<x, slept, status_achieved, current_status, stack, log>>
       ELSE IF ~HasStatus(params.type)
       THEN /\ Raise("KeyError: 'Status'")
            /\ UNCHANGED <<x, slept, status_achieved, current_status, stack, log>>
       ELSE /\ x' = x + 1
            /\ current_status' = resources[IndexOf(waitId)].Status
            /\ IF IsTerminalStatus(current_status')
               THEN /\ status_achieved' = TRUE
                    /\ slept' = slept
                    /\ log' = Append(log, Call("poll", waitId, NoETag, EmptyDoc,
                                               current_status'))
                    /\ pc' = Head(stack)
                    /\ stack' = Tail(stack)
               ELSE /\ slept' = slept + polling_increment_secs
                    /\ UNCHANGED <<status_achieved, log, pc, stack>>
            /\ UNCHANGED outcome
    /\ UNCHANGED <<params, initial, resources, itemsKey, policy, existing, idx,
                   caller_reference_exists, changed, results, updArgs, config,
                   waitId, ret>>

\* The loop has made max_retries passes: line 449 returns False.
PollExhausted ==
    /\ pc = "poll"
    /\ ~LoopContinues(x)
    /\ pc' = Head(stack)
    /\ stack' = Tail(stack)
    /\ UNCHANGED <<params, initial, current_status,
                   resources, itemsKey, policy, existing, idx,
                   caller_reference_exists, changed, results, updArgs, config,
                   waitId, x, slept, status_achieved, ret, outcome, log>>

\* ---------------------------------------------------------- creation_setup
\* json.load / json.loads, lines 213-223: the object a JSON text holds, or a
\* ValueError.
json_loads(p) ==
    IF p.valid THEN [ok |-> TRUE, value |-> p.doc] ELSE [ok |-> FALSE, value |-> EmptyDoc]

\* Lines 208-245: parse the policy parameter and require its CallerReference.
\* Without a policy parameter, policy stays None and line 242 tests
\* 'CallerReference' not in None, a TypeError.
CreationSetupPolicy ==
    /\ pc = "creation_setup"
    /\ IF ~params.policy.given
       THEN /\ Raise("TypeError: argument of type 'NoneType' is not iterable")
            /\ UNCHANGED policy
       ELSE IF ~json_loads(params.policy).ok
       THEN /\ fail_json(MsgInvalidJson)
            /\ UNCHANGED policy
       ELSE IF "CallerReference" \notin DOMAIN json_loads(params.policy).value
       THEN /\ fail_json(MsgNoCallerReference)
            /\ UNCHANGED policy
       ELSE /\ policy' = json_loads(params.policy).value
            /\ pc' = "get_existing"
            /\ UNCHANGED outcome
    /\ UNCHANGED <<params, initial, current_status,
                   resources, itemsKey, stack, existing, idx,
                   caller_reference_exists, changed, results, updArgs, config,
                   waitId, x, slept, status_achieved, ret, log>>

\* Whether the get_existing_* function of this type reads
\* response[...]['Items'] only after testing that the key is there: lines 144,
\* 160 and 180 test it, line 195 does not.
ChecksItemsKey(t) == t # "streaming"

\* The temp_object the get_existing_* functions build of a listed resource,
\* lines 146-153, 162-168, 182-188 and 196-203.  An invalidation's ETag is "".
TempObject(t, r) ==
    [Config |-> r.Config,
     ETag |-> IF t = "invalidation" THEN NoETag ELSE r.ETag,
     Id |-> r.Id]

\* Lines 247-249: existing = get_config_method(client, module).
GetExisting ==
    /\ pc = "get_existing"
    /\ IF params.type = "invalidation" /\ params.resource_id = NoResourceId
       THEN /\ fail_json(MsgNoDistributionId)
            /\ UNCHANGED <<existing, idx, caller_reference_exists>>
       ELSE IF ~ChecksItemsKey(params.type) /\ ~itemsKey
       THEN /\ Raise("KeyError: 'Items'")
            /\ UNCHANGED <<existing, idx, caller_reference_exists>>
       ELSE /\ existing' = [i \in 1 .. Len(resources) |->
                               TempObject(params.type, resources[i])]
            /\ idx' = 1
            /\ caller_reference_exists' = FALSE
            /\ pc' = "loop"
            /\ UNCHANGED outcome
    /\ UNCHANGED <<params, initial, current_status,
                   resources, itemsKey, stack, policy, changed, results,
                   updArgs, config, waitId, x, slept, status_achieved, ret, log>>

\* Line 251.
SameCallerReference(pol, item) == pol.CallerReference = item.Config.CallerReference

\* A slip in line 253: the policy compared with the item, not with its Config.
SameConfigItem(pol, item) == pol = item

\* Line 253: cmp(policy, item['Config']) == 0.
SameConfig(pol, item) == pol = item.Config

\* A slip in line 256: the refusal of invalidations left out.
IsInvalidationNever(t) == FALSE

\* Line 256.
IsInvalidation(t) == t = "invalidation"

\* The get_resource_details method of return_resource_details, lines 274-287.
DetailsMethod(t) ==
    CASE t = "distribution" -> "get_distribution"
      [] t = "origin_access_id" -> "get_cloud_front_origin_access_identity"
      [] t = "invalidation" -> "get_invalidation"
      [] t = "streaming" -> "get_streaming_distribution"

\* Lines 250-251: an item with another caller reference is passed over.
LoopSkip ==
    /\ pc = "loop"
    /\ idx <= Len(existing)
    /\ ~SameCallerReference(policy, existing[idx])
    /\ idx' = idx + 1
    /\ UNCHANGED <<params, initial, current_status,
                   resources, itemsKey, pc, stack, policy, existing,
                   caller_reference_exists, changed, results, updArgs, config,
                   waitId, x, slept, status_achieved, ret, outcome, log>>

\* Lines 252-255 and return_resource_details, lines 271-296: the item has the
\* policy's caller reference and config; its details are read and kept as
\* results.
LoopSame ==
    /\ pc = "loop"
    /\ idx <= Len(existing)
    /\ SameCallerReference(policy, existing[idx])
    /\ SameConfig(policy, existing[idx])
    /\ caller_reference_exists' = TRUE
    /\ results' = [kind |-> "details", Id |-> existing[idx].Id]
    /\ log' = Append(log, Call(DetailsMethod(params.type), existing[idx].Id,
                               NoETag, EmptyDoc, ""))
    /\ idx' = idx + 1
    /\ UNCHANGED <<params, initial, current_status,
                   resources, itemsKey, pc, stack, policy, existing,
                   changed, updArgs, config, waitId, x, slept, status_achieved,
                   ret, outcome>>

\* Lines 256-261: an invalidation with the policy's caller reference and
\* another config.
LoopInvalidation ==
    /\ pc = "loop"
    /\ idx <= Len(existing)
    /\ SameCallerReference(policy, existing[idx])
    /\ ~SameConfig(policy, existing[idx])
    /\ IsInvalidation(params.type)
    /\ caller_reference_exists' = TRUE
    /\ fail_json(MsgInvalidationUpdate)
    /\ UNCHANGED <<params, initial, current_status,
                   resources, itemsKey, stack, policy, existing, idx,
                   changed, results, updArgs, config, waitId, x, slept,
                   status_achieved, ret, log>>

\* Lines 262-263: update(client, module, policy, item['Id'], item['ETag']) is
\* entered.
LoopUpdate ==
    /\ pc = "loop"
    /\ idx <= Len(existing)
    /\ SameCallerReference(policy, existing[idx])
    /\ ~SameConfig(policy, existing[idx])
    /\ ~IsInvalidation(params.type)
    /\ caller_reference_exists' = TRUE
    /\ updArgs' = [Id |-> existing[idx].Id, ETag |-> existing[idx].ETag]
    /\ stack' = <<"loop_update_done">> \o stack
    /\ pc' = "update"
    /\ UNCHANGED <<params, initial, current_status,
                   resources, itemsKey, policy, existing, idx, changed,
                   results, config, waitId, x, slept, status_achieved, ret,
                   outcome, log>>

\* Line 263: changed, results = update(...), and on to the next item.
LoopUpdateDone ==
    /\ pc = "loop_update_done"
    /\ changed' = ret.changed
    /\ results' = ret.result
    /\ idx' = idx + 1
    /\ pc' = "loop"
    /\ UNCHANGED <<params, initial, current_status,
                   resources, itemsKey, stack, policy, existing,
                   caller_reference_exists, updArgs, config, waitId, x, slept,
                   status_achieved, ret, outcome, log>>

\* Line 265: whether creation is called once the loop is over.
MustCreate(exists) == ~exists

\* Lines 265-268, the loop over: creation is entered when no item had the
\* caller reference, else creation_setup returns.
LoopEnd ==
    /\ pc = "loop"
    /\ idx > Len(existing)
    /\ pc' = IF MustCreate(caller_reference_exists) THEN "creation" ELSE "exit_json"
    /\ UNCHANGED <<params, initial, current_status,
                   resources, itemsKey, stack, policy, existing, idx,
                   caller_reference_exists, changed, results, updArgs, config,
                   waitId, x, slept, status_achieved, ret, outcome, log>>

\* ------------------------------------------------------ creation and update
\* The 'method' entries of creation's table, lines 304-325.
CreateMethod(t) ==
    CASE t = "distribution" -> "create_distribution"
      [] t = "origin_access_id" -> "create_cloud_front_origin_access_identity"
      [] t = "invalidation" -> "create_invalidation"
      [] t = "streaming" -> "create_streaming_distribution"

\* module.params.get('wait_for_deployed'), lines 335 and 371.
WaitRequested == params.wait_for_deployed

\* A slip in line 343: creation returns the changed flag it started with.
CreationChangedStale == FALSE

\* Line 343: the changed flag creation returns.
CreationChanged == TRUE

\* creation, lines 326-344: the create call, then the wait when asked for.
Creation ==
    /\ pc = "creation"
    /\ log' = Append(log, Call(CreateMethod(params.type), NewId, NoETag, policy, ""))
    /\ resources' = ProviderCreate(policy)
    /\ ret' = [changed |-> CreationChanged, result |-> [kind |-> "created", Id |-> NewId]]
    /\ IF WaitRequested
       THEN StartWait(NewId, "creation_waited")
       ELSE /\ pc' = "creation_done"
            /\ UNCHANGED <<stack, waitId, x, slept, status_achieved, current_status>>
    /\ UNCHANGED <<params, initial, itemsKey, policy, existing, idx,
                   caller_reference_exists, changed, results, updArgs, config,
                   outcome>>

\* Lines 338-344: back from the wait.
CreationWaited ==
    /\ pc = "creation_waited"
    /\ IF ~status_achieved
       THEN fail_json(MsgTimedOutWaiting)
       ELSE /\ pc' = "creation_done"
            /\ UNCHANGED outcome
    /\ UNCHANGED <<params, initial, current_status,
                   resources, itemsKey, stack, policy, existing, idx,
                   caller_reference_exists, changed, results, updArgs, config,
                   waitId, x, slept, status_achieved, ret, log>>

\* Lines 266-268: changed, results = creation(...); return changed, results.
CreationDone ==
    /\ pc = "creation_done"
    /\ changed' = ret.changed
    /\ results' = ret.result
    /\ pc' = "exit_json"
    /\ UNCHANGED <<params, initial, current_status,
                   resources, itemsKey, stack, policy, existing, idx,
                   caller_reference_exists, updArgs, config, waitId, x, slept,
                   status_achieved, ret, outcome, log>>

\* The 'method' entries of update's table, lines 350-363.  The entry of
\* streaming is client.create_streaming_distribution.  The table has no entry
\* for invalidation, and update is never entered with that type.
UpdateMethod(t) ==
    CASE t = "distribution" -> "update_distribution"
      [] t = "origin_access_id" -> "update_cloud_front_origin_access_identity"
      [] t = "streaming" -> "create_streaming_distribution"
      [] OTHER -> "KeyError"

\* Whether the SDK method takes the Id and IfMatch arguments update passes,
\* lines 365-367: the update methods do, a create method takes the config only
\* and refuses the call (ParamValidationError) before anything is sent.
TakesIdAndIfMatch(method) ==
    method \in {"update_distribution", "update_cloud_front_origin_access_identity"}

\* Line 380: the changed flag update returns.
UpdateChanged == TRUE

\* update, lines 365-374: the call of the table's method with the policy, the
\* Id and the ETag as IfMatch, then the wait when asked for.
Update ==
    /\ pc = "update"
    /\ log' = Append(log, Call(UpdateMethod(params.type), updArgs.Id, updArgs.ETag,
                               policy, ""))
    /\ IF ~TakesIdAndIfMatch(UpdateMethod(params.type))
       THEN /\ Raise("ParamValidationError")
            /\ UNCHANGED <<resources, ret, stack, waitId, x, slept, status_achieved,
                           current_status>>
       ELSE /\ resources' = ProviderUpdate(updArgs.Id, policy)
            /\ ret' = [changed |-> UpdateChanged,
                       result |-> [kind |-> "updated", Id |-> updArgs.Id]]
            /\ IF WaitRequested
               THEN StartWait(updArgs.Id, "update_waited")
               ELSE /\ pc' = Head(stack)
                    /\ stack' = Tail(stack)
                    /\ UNCHANGED <<waitId, x, slept, status_achieved, current_status>>
            /\ UNCHANGED outcome
    /\ UNCHANGED <<params, initial, itemsKey, policy, existing, idx,
                   caller_reference_exists, changed, results, updArgs, config>>

\* A slip in lines 375-378: update returns whatever the wait found.
UpdateWaitedUnchecked ==
    /\ pc = "update_waited"
    /\ pc' = Head(stack)
    /\ stack' = Tail(stack)
    /\ UNCHANGED <<params, initial, current_status,
                   resources, itemsKey, policy, existing, idx,
                   caller_reference_exists, changed, results, updArgs, config,
                   waitId, x, slept, status_achieved, ret, outcome, log>>

\* Lines 375-381: back from the wait.
UpdateWaited ==
    /\ pc = "update_waited"
    /\ IF ~status_achieved
       THEN /\ fail_json(MsgTimedOutWaiting)
            /\ UNCHANGED stack
       ELSE /\ pc' = Head(stack)
            /\ stack' = Tail(stack)
            /\ UNCHANGED outcome
    /\ UNCHANGED <<params, initial, current_status,
                   resources, itemsKey, policy, existing, idx,
                   caller_reference_exists, changed, results, updArgs, config,
                   waitId, x, slept, status_achieved, ret, log>>

\* ------------------------------------------------------------ removal_setup
\* The types disable_distribution's table has an entry for, lines 387-398.
DisableTypes == {"distribution", "streaming"}

\* The 'method' entries of removal_setup's table, lines 456-469.
ConfigMethod(t) ==
    CASE t = "distribution" -> "get_distribution_config"
      [] t = "origin_access_id" -> "get_cloud_front_origin_access_identity_config"
      [] t = "streaming" -> "get_streaming_distribution_config"
      [] OTHER -> "KeyError"

\* The 'method' entries of disable_distribution's table, lines 387-398.
DisableGetMethod(t) ==
    CASE t = "distribution" -> "get_distribution"
      [] t = "streaming" -> "get_streaming_distribution"
      [] OTHER -> "KeyError"

\* Lines 471-479: the refusals, then either disable_distribution or one read
\* of the resource's config.
RemovalSetup ==
    /\ pc = "removal_setup"
    /\ IF params.type = "invalidation"
       THEN /\ fail_json(MsgInvalidationRemoval)
            /\ UNCHANGED <<config, log>>
       ELSE IF params.resource_id = NoResourceId
       THEN /\ fail_json(MsgNoResourceId)
            /\ UNCHANGED <<config, log>>
       ELSE IF WaitRequested
       THEN /\ pc' = "disable_distribution"
            /\ UNCHANGED <<config, log, outcome>>
       ELSE IF IndexOf(params.resource_id) = 0
       THEN /\ Raise("NoSuchResource")
            /\ UNCHANGED <<config, log>>
       ELSE LET r == resources[IndexOf(params.resource_id)] IN
            /\ config' = [Config |-> r.Config, ETag |-> r.ETag]
            /\ log' = Append(log, Call(ConfigMethod(params.type), r.Id, r.ETag,
                                       r.Config, ""))
            /\ pc' = "removal_check"
            /\ UNCHANGED outcome
    /\ UNCHANGED <<params, initial, current_status,
                   resources, itemsKey, stack, policy, existing, idx,
                   caller_reference_exists, changed, results, updArgs, waitId, x,
                   slept, status_achieved, ret>>

\* Lines 405-406: the config read, with Enabled set to False.
Disabled(cfg) == [cfg EXCEPT !.Enabled = FALSE]

\* disable_distribution, lines 399-407: the resource is read; when it is
\* enabled, update is entered with its config disabled and the ETag read.
DisableDistribution ==
    /\ pc = "disable_distribution"
    /\ IF params.type \notin DisableTypes
       THEN /\ Raise("KeyError: 'origin_access_id'")
            /\ UNCHANGED <<policy, updArgs, stack, log>>
       ELSE IF IndexOf(params.resource_id) = 0
       THEN /\ Raise("NoSuchResource")
            /\ UNCHANGED <<policy, updArgs, stack, log>>
       ELSE LET get_result == resources[IndexOf(params.resource_id)] IN
            /\ log' = Append(log, Call(DisableGetMethod(params.type), get_result.Id,
                                       get_result.ETag, get_result.Config, ""))
            /\ IF get_result.Config.Enabled
               THEN /\ policy' = Disabled(get_result.Config)
                    /\ updArgs' = [Id |-> params.resource_id, ETag |-> get_result.ETag]
                    /\ stack' = <<"disable_wait">> \o stack
                    /\ pc' = "update"
               ELSE /\ pc' = "disable_wait"
                    /\ UNCHANGED <<policy, updArgs, stack>>
            /\ UNCHANGED outcome
    /\ UNCHANGED <<params, initial, current_status,
                   resources, itemsKey, existing, idx,
                   caller_reference_exists, changed, results, config, waitId, x,
                   slept, status_achieved, ret>>

\* Line 409: status_achieved = wait_for_deployed_status(client, module, **params).
DisableWait ==
    /\ pc = "disable_wait"
    /\ StartWait(params.resource_id, "disable_waited")
    /\ UNCHANGED <<params, initial, resources, itemsKey, policy, existing, idx,
                   caller_reference_exists, changed, results, updArgs, config,
                   ret, outcome, log>>

\* Whether the method line 414 reads the config with, get_distribution_config
\* for every type, is the one that reads a resource of this type.
ReadsConfigOf(t) == t = "distribution"

\* Lines 411-415: back from the wait; on success the config is read again with
\* client.get_distribution_config.  For a streaming distribution that is not
\* the method of its type: the provider knows no distribution of that id (and
\* the answer of that method has no 'StreamingDistributionConfig' for line 481).
DisableWaited ==
    /\ pc = "disable_waited"
    /\ IF ~status_achieved
       THEN /\ fail_json(MsgTimedOutDisabling)
            /\ UNCHANGED <<config, log>>
       ELSE IF ~ReadsConfigOf(params.type) \/ IndexOf(params.resource_id) = 0
       THEN /\ Raise("NoSuchDistribution")
            /\ UNCHANGED <<config, log>>
       ELSE LET r == resources[IndexOf(params.resource_id)] IN
            /\ config' = [Config |-> r.Config, ETag |-> r.ETag]
            /\ log' = Append(log, Call("get_distribution_config", r.Id, r.ETag,
                                       r.Config, ""))
            /\ pc' = "removal_check"
            /\ UNCHANGED outcome
    /\ UNCHANGED <<params, initial, current_status,
                   resources, itemsKey, stack, policy, existing, idx,
                   caller_reference_exists, changed, results, updArgs, waitId, x,
                   slept, status_achieved, ret>>

\* A slip in line 481: the test of Enabled left out.
MayRemoveAlways(cfg) == TRUE

\* Line 481: whether the config read lets the resource be removed.
MayRemove(cfg) == ~cfg.Enabled

\* Lines 481-486: a disabled resource is removed, an enabled one refused.  A
\* config without Enabled (an origin access identity's) is a KeyError.
RemovalCheck ==
    /\ pc = "removal_check"
    /\ IF "Enabled" \notin DOMAIN config.Config
       THEN Raise("KeyError: 'Enabled'")
       ELSE IF MayRemove(config.Config)
       THEN /\ pc' = "removal"
            /\ UNCHANGED outcome
       ELSE fail_json(MsgMustBeDisabled)
    /\ UNCHANGED <<params, initial, current_status,
                   resources, itemsKey, stack, policy, existing, idx,
                   caller_reference_exists, changed, results, updArgs, config,
                   waitId, x, slept, status_achieved, ret, log>>

\* removal's table, lines 495-499.
DeleteMethod(t) ==
    CASE t = "distribution" -> "delete_distribution"
      [] t = "origin_access_id" -> "delete_cloud_front_origin_access_identity"
      [] t = "streaming" -> "delete_streaming_distribution"
      [] OTHER -> "KeyError"

\* Line 506: the changed flag removal returns.
RemovalChanged == TRUE

\* removal, lines 501-507, and lines 484 and 488: the delete call with the Id
\* and the ETag of the config read as IfMatch.
Removal ==
    /\ pc = "removal"
    /\ log' = Append(log, Call(DeleteMethod(params.type), params.resource_id,
                               config.ETag, EmptyDoc, ""))
    /\ resources' = ProviderDelete(params.resource_id)
    /\ changed' = RemovalChanged
    /\ results' = [kind |-> "deleted", Id |-> params.resource_id]
    /\ pc' = "exit_json"
    /\ UNCHANGED <<params, initial, current_status,
                   itemsKey, stack, policy, existing, idx,
                   caller_reference_exists, updArgs, config, waitId, x, slept,
                   status_achieved, ret, outcome>>

\* ------------------------------------------------------------------- spec
Next ==
    \/ Main
    \/ CreationSetupPolicy
    \/ GetExisting
    \/ LoopSkip
    \/ LoopSame
    \/ LoopInvalidation
    \/ LoopUpdate
    \/ LoopUpdateDone
    \/ LoopEnd
    \/ Creation
    \/ CreationWaited
    \/ CreationDone
    \/ Update
    \/ UpdateWaited
    \/ Poll
    \/ PollExhausted
    \/ RemovalSetup
    \/ DisableDistribution
    \/ DisableWait
    \/ DisableWaited
    \/ RemovalCheck
    \/ Removal
    \/ MainExit
    \/ ProviderDeploys

Spec == Init /\ [][Next]_vars

\* The script is a running process: a pass of the polling loop that can be
\* made is made.
FairSpec == Spec /\ WF_vars(Poll \/ PollExhausted)

\* ---------------------------------------------------------------- claims
\* The calls that change what the provider holds.
CreateOps ==
    {"create_distribution", "create_cloud_front_origin_access_identity",
     "create_invalidation", "create_streaming_distribution"}
UpdateOps ==
    {"update_distribution", "update_cloud_front_origin_access_identity",
     "update_streaming_distribution"}
DeleteOps ==
    {"delete_distribution", "delete_cloud_front_origin_access_identity",
     "delete_streaming_distribution"}
ChangingOps == CreateOps \cup UpdateOps \cup DeleteOps

\* The positions of the log holding a call of one of these operations.
CallsOf(ops) == {k \in 1 .. Len(log) : log[k].op \in ops}

Finished == pc = "done"
Exited == outcome.kind = "exit"
Failed(msg) == outcome.kind = "fail" /\ outcome.msg = msg

\* The policy parameter is JSON text holding an object with a CallerReference.
PolicyUsable ==
    /\ params.policy.given
    /\ params.policy.valid
    /\ "CallerReference" \in DOMAIN params.policy.doc

\* The resources the provider lists for this invocation: those it held at the
\* start (an invalidation listing needs the distribution's id).
Listable == params.type = "invalidation" => params.resource_id # NoResourceId

\* A resource held at the start has the policy's caller reference.
RefHeldAtStart ==
    \E i \in 1 .. Len(initial) :
        initial[i].Config.CallerReference = params.policy.doc.CallerReference

\* C1: state=present and a listed resource has the policy's caller reference
\* and a config equal to the policy: no create, update or delete call is made
\* and the invocation exits with changed=false and that resource's details.
C1_Idempotent ==
    \A i \in 1 .. Len(initial) :
        (/\ Finished
         /\ params.state = "present"
         /\ PolicyUsable
         /\ Listable
         /\ initial[i].Config = params.policy.doc)
        => /\ CallsOf(ChangingOps) = {}
           /\ Exited
           /\ outcome.changed = FALSE
           /\ outcome.result = [kind |-> "details", Id |-> initial[i].Id]

C1_Witness ==
    /\ Finished
    /\ params.state = "present"
    /\ PolicyUsable
    /\ Len(initial) = 2
    /\ initial[2].Config = params.policy.doc
    /\ outcome = [kind |-> "exit", msg |-> "", changed |-> FALSE,
                  result |-> [kind |-> "details", Id |-> 2]]

\* C2 as claimed: state=present, any type, no listed resource has the policy's
\* caller reference (the listing may carry no Items): exactly one create call
\* of that type carrying the policy is made and the invocation exits with
\* changed=true (or fails on the timeout of the wait asked for); and a create
\* call is made only then.
C2_CreateWhenAbsent ==
    (/\ Finished
     /\ params.state = "present"
     /\ PolicyUsable
     /\ Listable)
    => /\ ~RefHeldAtStart
            => /\ \E k \in 1 .. Len(log) :
                    /\ CallsOf(CreateOps) = {k}
                    /\ log[k].op = CreateMethod(params.type)
                    /\ log[k].Config = params.policy.doc
               /\ \/ Exited /\ outcome.changed = TRUE
                  \/ Failed(MsgTimedOutWaiting)
       /\ CallsOf(CreateOps) # {} => ~RefHeldAtStart

\* The update operation of a resource type, as the provider names it.
UpdateOpOf(t) ==
    IF t = "distribution" THEN "update_distribution" ELSE "update_streaming_distribution"

\* C3 as claimed: state=present, type distribution or streaming, a listed
\* resource has the policy's caller reference and another config: the update
\* operation of that type is called with the policy, the resource's Id and its
\* ETag as IfMatch, no create operation is called, and the invocation exits
\* with changed=true (or fails on the timeout of the wait asked for).
C3_UpdateWhenDiffers ==
    \A i \in 1 .. Len(initial) :
        (/\ Finished
         /\ params.state = "present"
         /\ params.type \in {"distribution", "streaming"}
         /\ PolicyUsable
         /\ initial[i].Config.CallerReference = params.policy.doc.CallerReference
         /\ initial[i].Config # params.policy.doc)
        => /\ \E k \in 1 .. Len(log) :
                log[k] = Call(UpdateOpOf(params.type), initial[i].Id,
                              initial[i].ETag, params.policy.doc, "")
           /\ CallsOf(CreateOps) = {}
           /\ \/ Exited /\ outcome.changed = TRUE
              \/ Failed(MsgTimedOutWaiting)

\* The resource resource_id names was held by the provider at the start.
TargetHeldAtStart ==
    /\ params.resource_id # NoResourceId
    /\ \E i \in 1 .. Len(initial) : initial[i].Id = params.resource_id

\* That resource, as it was at the start.
TargetAtStart ==
    initial[CHOOSE i \in 1 .. Len(initial) : initial[i].Id = params.resource_id]

\* C4 as claimed: state=absent, wait_for_deployed=yes, type distribution or
\* streaming, and no wait timed out: the log holds, in this order, an update
\* with Enabled=false exactly when the resource was enabled, a poll that saw
\* Deployed, a read of the resource's config, and last the delete call of that
\* type with the ETag of that read; the invocation exits with changed=true.
C4_DisableThenDelete ==
    (/\ Finished
     /\ params.state = "absent"
     /\ params.wait_for_deployed
     /\ params.type \in {"distribution", "streaming"}
     /\ TargetHeldAtStart
     /\ ~Failed(MsgTimedOutWaiting)
     /\ ~Failed(MsgTimedOutDisabling))
    => /\ Exited
       /\ outcome.changed = TRUE
       /\ \A k \in CallsOf(UpdateOps \cup CreateOps) :
            /\ TargetAtStart.Config.Enabled
            /\ log[k].op = UpdateOpOf(params.type)
            /\ log[k].Id = params.resource_id
            /\ log[k].Config.Enabled = FALSE
       /\ TargetAtStart.Config.Enabled => Cardinality(CallsOf(UpdateOps)) = 1
       /\ \E kp, kr, kd \in 1 .. Len(log) :
            /\ \A k \in CallsOf(UpdateOps) : k < kp
            /\ kp < kr
            /\ kr < kd
            /\ kd = Len(log)
            /\ log[kp].op = "poll"
            /\ log[kp].Id = params.resource_id
            /\ log[kp].Status = "Deployed"
            /\ log[kr].op = "get_distribution_config"
            /\ log[kr].Id = params.resource_id
            /\ \A k \in (kr + 1) .. (kd - 1) : log[k].op \notin ChangingOps
            /\ log[kd] = Call(DeleteMethod(params.type), params.resource_id,
                              log[kr].IfMatch, EmptyDoc, "")
            /\ CallsOf(DeleteOps) = {kd}

\* C5 as claimed: state=absent, type origin_access_id, resource_id given, with
\* or without wait_for_deployed: the identity's delete call is made with that
\* Id and the identity's current ETag as IfMatch, and the invocation exits with
\* changed=true.
C5_DeleteOriginAccessId ==
    (/\ Finished
     /\ params.state = "absent"
     /\ params.type = "origin_access_id"
     /\ TargetHeldAtStart)
    => /\ \E k \in 1 .. Len(log) :
            log[k] = Call("delete_cloud_front_origin_access_identity",
                          params.resource_id, TargetAtStart.ETag, EmptyDoc, "")
       /\ Exited
       /\ outcome.changed = TRUE

\* Where wait_for_deployed_status returns to.
WaitReturns == {"creation_waited", "update_waited", "disable_waited"}

\* The statuses that end the wait.
TerminalStatuses == {"Deployed", "Completed"}

\* What C6 says of every state: at most max_retries polls and 30 x 30 seconds
\* of sleep, 30 seconds after each poll that did not see a terminal status;
\* the first poll that sees Deployed or Completed ends the function with true
\* and is its last poll; it returns false exactly when max_retries polls saw
\* no terminal status.
C6_PollState ==
    /\ x <= max_retries
    /\ slept <= 900
    /\ slept = 30 * (IF status_achieved THEN x - 1 ELSE x)
    /\ status_achieved
         => /\ x >= 1
            /\ pc # "poll"
            /\ current_status \in TerminalStatuses
    /\ (pc = "poll" /\ x > 0) => current_status \notin TerminalStatuses
    /\ pc \in WaitReturns
         => (~status_achieved
                <=> (x = max_retries /\ current_status \notin TerminalStatuses))

\* C6: wait_for_deployed_status always terminates, within the bounds and with
\* the results C6_PollState states.
C6_WaitTerminates ==
    /\ []C6_PollState
    /\ (pc = "poll") ~> (pc # "poll")

C6_Witness ==
    /\ pc \in WaitReturns
    /\ ~status_achieved
    /\ x = max_retries
    /\ slept = 900

MissingRequired ==
    \/ params.state = "present" /\ ~params.policy.given
    \/ /\ params.state = "present"
       /\ params.policy.given
       /\ params.policy.valid
       /\ "CallerReference" \notin DOMAIN params.policy.doc
    \/ /\ params.state = "present"
       /\ params.type = "invalidation"
       /\ params.resource_id = NoResourceId
    \/ params.state = "absent" /\ params.resource_id = NoResourceId

\* C8 as claimed: with a required parameter missing the invocation ends in
\* fail_json with a message and has made no create, update or delete call.
C8_MissingParameterFails ==
    (Finished /\ MissingRequired)
    => /\ outcome.kind = "fail"
       /\ outcome.msg # ""
       /\ CallsOf(ChangingOps) = {}

\* C9: type=invalidation: no update or delete call is ever made; state=present
\* with a listed invalidation of the policy's caller reference and another
\* config fails with the cannot-be-updated message, state=absent with the
\* cannot-be-removed message, neither after a create call.
C9_InvalidationNeverChanged ==
    params.type = "invalidation"
    => /\ CallsOf(UpdateOps \cup DeleteOps) = {}
       /\ \A i \in 1 .. Len(initial) :
            (/\ Finished
             /\ params.state = "present"
             /\ PolicyUsable
             /\ Listable
             /\ initial[i].Config.CallerReference = params.policy.doc.CallerReference
             /\ initial[i].Config # params.policy.doc)
            => /\ Failed(MsgInvalidationUpdate)
               /\ CallsOf(CreateOps) = {}
       /\ (Finished /\ params.state = "absent")
            => /\ Failed(MsgInvalidationRemoval)
               /\ CallsOf(ChangingOps) = {}

C9_Witness ==
    /\ Finished
    /\ params.type = "invalidation"
    /\ params.state = "present"
    /\ PolicyUsable
    /\ Len(initial) = 2
    /\ initial[2].Config.CallerReference = params.policy.doc.CallerReference
    /\ Failed(MsgInvalidationUpdate)

\* C10: an invocation that exits successfully returns changed=true exactly
\* when it made at least one create, update or delete call.
C10_ChangedIffCalled ==
    Exited => (outcome.changed <=> CallsOf(ChangingOps) # {})

C10_Witness ==
    /\ Exited
    /\ outcome.changed
    /\ Cardinality(CallsOf(ChangingOps)) = 2

\* The calls that read a resource's config: the 'method' entries of
\* removal_setup's and disable_distribution's tables.
ConfigReadOps ==
    {"get_distribution_config", "get_cloud_front_origin_access_identity_config",
     "get_streaming_distribution_config", "get_distribution",
     "get_streaming_distribution"}

\* C11: state=absent: a delete call is made only when the most recent read of
\* resource_id's config by this invocation showed Enabled=false, and it
\* carries that read's ETag as IfMatch; with wait_for_deployed=no and a
\* resource whose config shows Enabled=true the invocation fails with the
\* must-be-disabled message, makes no update and no delete call, and the
\* provider's resources are as they were.
C11_DeleteOnlyDisabled ==
    params.state = "absent"
    => /\ \A kd \in CallsOf(DeleteOps) :
            /\ log[kd].Id = params.resource_id
            /\ \E kr \in 1 .. (kd - 1) :
                 /\ log[kr].op \in ConfigReadOps
                 /\ log[kr].Id = params.resource_id
                 /\ \A k \in (kr + 1) .. (kd - 1) : log[k].op \notin ConfigReadOps
                 /\ log[kr].Config.Enabled = FALSE
                 /\ log[kd].IfMatch = log[kr].IfMatch
       /\ (/\ Finished
           /\ ~params.wait_for_deployed
           /\ TargetHeldAtStart
           /\ "Enabled" \in DOMAIN TargetAtStart.Config
           /\ TargetAtStart.Config.Enabled)
            => /\ Failed(MsgMustBeDisabled)
               /\ CallsOf(ChangingOps) = {}
               /\ resources = initial

\* A delete after the invocation itself disabled the resource: the ETag the
\* delete carries is the one read again, not the one read first.
C11_Witness ==
    /\ Exited
    /\ params.state = "absent"
    /\ params.wait_for_deployed
    /\ TargetAtStart.Config.Enabled
    /\ log[Len(log)].op \in DeleteOps
    /\ log[Len(log)].IfMatch = NextETag(TargetAtStart.ETag)

=============================================================================
